---- MODULE Spec2Model ----
(***************************************************************************)
(* Model of the IFF decoder of simscompatcheck (src/api/iff_parser.py).   *)
(* Buffers are sequences of bytes (0..255); offsets are 0-based as in the  *)
(* source, so byte k of a buffer d is d[k+1].  Text is the sequence of     *)
(* code points produced by bytes.decode("ascii", errors="replace").        *)
(***************************************************************************)
EXTENDS Integers, Sequences, FiniteSets, TLC

VARIABLES
    entry,              \* the function that was called: which decode is running
    pc,                 \* position inside the running function
    data,               \* the buffer being decoded (file bytes or chunk payload)
    pos,                \* the cursor `pos` of the running loop
    chunks,             \* _read_chunks: list of (chunk_type, chunk_id, chunk_data)
    chunk_index,        \* parse_neighborhood: chunks already dispatched by the first pass
    count,              \* _parse_nbrs: records left of range(count)
    person_data_shorts, \* _parse_nbrs: trait vector of the record just decoded
    sims,               \* list of Sim
    families,           \* parse_neighborhood: list of Family
    family_names,       \* parse_neighborhood: chunk_id -> name
    files,              \* _scan_characters: files of Characters/ still to scan
    name,               \* _scan_characters: decoded name, or None
    guid,               \* _scan_characters: global identifier, or None
    portrait,           \* _scan_characters: portrait bytes, or None
    guid_to_info,       \* _scan_characters: guid -> CharacterInfo
    value,              \* _parse_fams: the string returned
    error,              \* TRUE once an exception has left the running function
    load_pc,            \* main.py: position of the service in lifespan and _load_data
    load_index,         \* _load_data: sims already visited by the portrait loop
    _portraits,         \* main.py global: sim id -> portrait bytes
    _families,          \* main.py global: list of Family
    _sims,              \* main.py global: list of Sim
    _sims_by_id,        \* main.py global: sim id -> Sim
    _family_by_number,  \* main.py global: chunk_id -> Family
    response,           \* main.py: what the last request handler returned, or None
    source_sim,         \* rank_compatibility: the argument sim
    candidates,         \* rank_compatibility: the argument all_sims
    rankings            \* rank_compatibility: the list returned, or None

vars == <<entry, pc, data, pos, chunks, chunk_index, count, person_data_shorts, sims,
          families, family_names, files, name, guid, portrait, guid_to_info,
          value, error, load_pc, load_index, _portraits, _families, _sims, _sims_by_id,
          _family_by_number, response, source_sim, candidates, rankings>>

\* the module state of main.py
Globals == <<_portraits, _families, _sims, _sims_by_id, _family_by_number>>

\* the state of the service and of a ranking call, which no decoding step touches
NoService == <<load_pc, load_index, Globals, response, source_sim, candidates, rankings>>

\* an optional value is None or Some(x)
None == <<>>

Some(x) == <<x>>

(***************************************************************************)
(* Program constants.                                                      *)
(***************************************************************************)
FileHeaderSize == 64
ChunkHeaderSize == 76
ReplacementChar == 65533

(***************************************************************************)
(* Primitive readers.                                                      *)
(***************************************************************************)
Min(a, b) == IF a < b THEN a ELSE b

Max(a, b) == IF a > b THEN a ELSE b

Zeros(n) == [i \in 1..n |-> 0]

\* data[a:b] for 0 <= a: Python slices clip at the end of the buffer
Slice(d, a, b) == SubSeq(d, a + 1, Min(b, Len(d)))

\* bytes.decode("ascii", errors="replace")
DecodeAscii(bs) == [i \in 1..Len(bs) |-> IF bs[i] < 128 THEN bs[i] ELSE ReplacementChar]

\* struct.unpack_from: a negative offset counts from the end of the buffer
StructOffset(d, off) == IF off < 0 THEN off + Len(d) ELSE off

\* struct.unpack_from raises struct.error unless the n bytes at off are in the buffer
CanUnpack(d, off, n) == StructOffset(d, off) >= 0 /\ Len(d) - StructOffset(d, off) >= n

UnpackU8(d, off) == d[StructOffset(d, off) + 1]

\* "<H" and "<h"
UnpackU16LE(d, off) == UnpackU8(d, off) + 256 * UnpackU8(d, StructOffset(d, off) + 1)

UnpackI16LE(d, off) ==
    IF UnpackU16LE(d, off) >= 32768 THEN UnpackU16LE(d, off) - 65536 ELSE UnpackU16LE(d, off)

\* ">H"
UnpackU16BE(d, off) == 256 * UnpackU8(d, off) + UnpackU8(d, StructOffset(d, off) + 1)

\* "<i": two's complement, computed without leaving the 32-bit range
UnpackI32LE(d, off) ==
    LET o == StructOffset(d, off)
        b3 == d[o + 4]
    IN  d[o + 1] + 256 * d[o + 2] + 65536 * d[o + 3]
          + 16777216 * (IF b3 >= 128 THEN b3 - 256 ELSE b3)

\* "<I" (exact for values below 2^31, the only ones the inputs below hold)
UnpackU32LE(d, off) ==
    LET o == StructOffset(d, off)
    IN  d[o + 1] + 256 * d[o + 2] + 65536 * d[o + 3] + 16777216 * d[o + 4]

\* ">I" (exact for values below 2^31)
UnpackU32BE(d, off) ==
    LET o == StructOffset(d, off)
    IN  16777216 * d[o + 1] + 65536 * d[o + 2] + 256 * d[o + 3] + d[o + 4]

(***************************************************************************)
(* _read_null_terminated_string                                            *)
(***************************************************************************)
\* bytes.index(b"\x00", offset): a negative start counts from the end
IndexStart(d, off) == IF off < 0 THEN Max(off + Len(d), 0) ELSE off

\* data.index(b"\x00", offset) raises ValueError when no zero byte follows
HasNull(d, off) == \E i \in IndexStart(d, off)..(Len(d) - 1) : d[i + 1] = 0

NullIndex(d, off) ==
    CHOOSE i \in IndexStart(d, off)..(Len(d) - 1) :
        d[i + 1] = 0 /\ \A j \in IndexStart(d, off)..(i - 1) : d[j + 1] # 0

\* returns (value, end + 1); data[offset:end] of a negative offset counts from the end
ReadNullTerminatedString(d, off) ==
    [value |-> DecodeAscii(SubSeq(d, IndexStart(d, off) + 1, NullIndex(d, off))),
     pos |-> NullIndex(d, off) + 1]

(***************************************************************************)
(* Chunk header fields, read at cursor p of buffer d (big-endian).         *)
(***************************************************************************)
ChunkType(d, p) == DecodeAscii(Slice(d, p, p + 4))

ChunkSize(d, p) == UnpackU32BE(d, p + 4)

ChunkId(d, p) == UnpackU16BE(d, p + 8)

ChunkData(d, p) == Slice(d, p + ChunkHeaderSize, p + ChunkSize(d, p))

ChunkAt(d, p) ==
    [chunk_type |-> ChunkType(d, p), chunk_id |-> ChunkId(d, p), chunk_data |-> ChunkData(d, p)]

(***************************************************************************)
(* _read_chunks: one action per way through the body of the while loop.    *)
(***************************************************************************)
NoScan == <<files, name, guid, portrait, guid_to_info, value, NoService>>

NoHood == <<chunk_index, sims, families, family_names>>

NoNbrs == <<count, person_data_shorts>>

\* where _read_chunks returns to
AfterReadChunks == IF entry = "parse_neighborhood" THEN "dispatch" ELSE "done"

\* `while pos < len(data)` is false: return chunks
ReadChunksExit ==
    /\ pc = "read_chunks"
    /\ ~(pos < Len(data))
    /\ pc' = AfterReadChunks
    /\ UNCHANGED <<entry, data, pos, chunks, error>>
    /\ UNCHANGED <<NoScan, NoHood, NoNbrs>>

\* `if pos + 76 > len(data): break`
ReadChunksBreak ==
    /\ pc = "read_chunks"
    /\ pos < Len(data)
    /\ pos + ChunkHeaderSize > Len(data)
    /\ pc' = AfterReadChunks
    /\ UNCHANGED <<entry, data, pos, chunks, error>>
    /\ UNCHANGED <<NoScan, NoHood, NoNbrs>>

\* a malformed header ends the scan, as a `break` in place of the `continue` would
ReadChunksSkipAbort ==
    /\ pc = "read_chunks"
    /\ pos < Len(data)
    /\ ~(pos + ChunkHeaderSize > Len(data))
    /\ ChunkSize(data, pos) < ChunkHeaderSize
    /\ pc' = AfterReadChunks
    /\ UNCHANGED <<entry, data, pos, chunks, error>>
    /\ UNCHANGED <<NoScan, NoHood, NoNbrs>>

\* `if chunk_size < 76: pos += 76; continue`
ReadChunksSkip ==
    /\ pc = "read_chunks"
    /\ pos < Len(data)
    /\ ~(pos + ChunkHeaderSize > Len(data))
    /\ ChunkSize(data, pos) < ChunkHeaderSize
    /\ pos' = pos + ChunkHeaderSize
    /\ UNCHANGED <<entry, pc, data, chunks, error>>
    /\ UNCHANGED <<NoScan, NoHood, NoNbrs>>

\* chunks.append((chunk_type, chunk_id, chunk_data)); pos += chunk_size
ReadChunksAppend ==
    /\ pc = "read_chunks"
    /\ pos < Len(data)
    /\ ~(pos + ChunkHeaderSize > Len(data))
    /\ ~(ChunkSize(data, pos) < ChunkHeaderSize)
    /\ chunks' = Append(chunks, ChunkAt(data, pos))
    /\ pos' = pos + ChunkSize(data, pos)
    /\ UNCHANGED <<entry, pc, data, error>>
    /\ UNCHANGED <<NoScan, NoHood, NoNbrs>>

ReadChunksStep == ReadChunksExit \/ ReadChunksBreak \/ ReadChunksSkip \/ ReadChunksAppend

(***************************************************************************)
(* _parse_nbrs: trait vector indices and the records built from them.      *)
(***************************************************************************)
HOTDATE_INTEREST_INDICES == <<13, 14, 16, 20, 26, 54, 55>>

BASE_INTEREST_INDICES == <<46, 47, 48, 49, 50, 51, 52, 53>>

TraitShorts == 88

ExtendedVersion == 10

ExtendedBlockSize == 512

BlockSize == 160

MagicSRBN == <<83, 82, 66, 78>>

\* max(raw) of a non-empty list
MaxOf(raw) == CHOOSE m \in {raw[i] : i \in 1..Len(raw)} : \A i \in 1..Len(raw) : raw[i] <= m

\* `if max <= 10: raw = [v * 100 for v in raw]`
Scale(raw, max) == IF max <= 10 THEN [i \in 1..Len(raw) |-> raw[i] * 100] ELSE raw

RawBase(shorts) == [i \in 1..Len(BASE_INTEREST_INDICES) |-> shorts[BASE_INTEREST_INDICES[i] + 1]]

RawHotdate(shorts) ==
    [i \in 1..Len(HOTDATE_INTEREST_INDICES) |-> shorts[HOTDATE_INTEREST_INDICES[i] + 1]]

\* the base group scaled by the maximum over both groups
NormBaseJoint(shorts) ==
    Scale(RawBase(shorts), Max(MaxOf(RawBase(shorts)), MaxOf(RawHotdate(shorts))))

NormBase(shorts) == Scale(RawBase(shorts), MaxOf(RawBase(shorts)))

NormHotdate(shorts) == Scale(RawHotdate(shorts), MaxOf(RawHotdate(shorts)))

MakeInterests(shorts) ==
    LET raw_base == NormBase(shorts)
        raw_hotdate == NormHotdate(shorts)
    IN  [exercise |-> raw_hotdate[1], food |-> raw_hotdate[2], parties |-> raw_hotdate[3],
         style |-> raw_hotdate[4], hollywood |-> raw_hotdate[5],
         travel |-> raw_base[1], violence |-> raw_base[2], politics |-> raw_base[3],
         sixties |-> raw_base[4], weather |-> raw_base[5], sports |-> raw_base[6],
         music |-> raw_base[7], outdoors |-> raw_base[8],
         technology |-> raw_hotdate[6], romance |-> raw_hotdate[7]]

MakePersonality(shorts) ==
    [nice |-> shorts[3], active |-> shorts[4], playful |-> shorts[6],
     outgoing |-> shorts[7], neat |-> shorts[8]]

\* the age threshold taken one too high
AgeOfInclusive(shorts) == IF shorts[59] <= 18 THEN "child" ELSE "adult"

AgeOf(shorts) == IF shorts[59] < 18 THEN "child" ELSE "adult"

GenderOf(shorts) == IF shorts[66] = 1 THEN "female" ELSE "male"

MakeSim(neighbour_id, g, nm, shorts, relationships) ==
    [id |-> neighbour_id, guid |-> g, name |-> nm, age |-> AgeOf(shorts),
     gender |-> GenderOf(shorts), family_number |-> shorts[62],
     personality |-> MakePersonality(shorts), interests |-> MakeInterests(shorts),
     zodiac |-> IF Len(shorts) > 70 THEN shorts[71] ELSE 0,
     relationships |-> relationships]

\* Relationship(daily, is_friend, lifetime) from the values of one sub-record
MakeRelationship(vals) ==
    [daily |-> IF Len(vals) > 0 THEN vals[1] ELSE 0,
     is_friend |-> IF Len(vals) > 1 THEN vals[2] # 0 ELSE FALSE,
     lifetime |-> IF Len(vals) > 2 THEN vals[3] ELSE 0]

\* the relationship loop: n sub-records from cursor q, into the dict rels
RECURSIVE ParseRelationships(_, _, _, _)
ParseRelationships(d, q, n, rels) ==
    IF n <= 0 THEN [ok |-> TRUE, pos |-> q, relationships |-> rels]
    ELSE IF ~CanUnpack(d, q, 4) THEN [ok |-> FALSE, pos |-> q, relationships |-> rels]
    ELSE
    LET key_count == UnpackI32LE(d, q)
        q1 == q + 4
    IN  IF ~CanUnpack(d, q1, 4) THEN [ok |-> FALSE, pos |-> q1, relationships |-> rels]
        ELSE
        LET rel_key == UnpackI32LE(d, q1)
            q2 == q1 + 4 * key_count
        IN  IF ~CanUnpack(d, q2, 4) THEN [ok |-> FALSE, pos |-> q2, relationships |-> rels]
            ELSE
            LET value_count == UnpackI32LE(d, q2)
                q3 == q2 + 4
            IN  IF value_count < 0 \/ ~CanUnpack(d, q3, 4 * value_count)
                THEN [ok |-> FALSE, pos |-> q3, relationships |-> rels]
                ELSE
                LET vals == [i \in 1..value_count |-> UnpackI32LE(d, q3 + 4 * (i - 1))]
                IN  ParseRelationships(d, q3 + 4 * value_count, n - 1,
                        [k \in (DOMAIN rels) \cup {rel_key} |->
                            IF k = rel_key THEN MakeRelationship(vals) ELSE rels[k]])

NoSim == [id |-> 0]

RecordResult(status, p, shorts, sim) ==
    [status |-> status, pos |-> p, person_data_shorts |-> shorts, sim |-> sim]

RecordError(p) == RecordResult("error", p, <<>>, NoSim)

\* the record is discarded before its relationship sub-records are read
ParseRecordTailEarly(d, p8, nm, person_mode, shorts) ==
    IF ~CanUnpack(d, p8, 2) \/ ~CanUnpack(d, p8 + 2, 4) \/ ~CanUnpack(d, p8 + 6, 4)
         \/ ~CanUnpack(d, p8 + 10, 4)
    THEN RecordError(p8)
    ELSE IF person_mode <= 0 \/ Len(shorts) < TraitShorts
    THEN RecordResult("discard", p8 + 14, shorts, NoSim)
    ELSE
    LET rels == ParseRelationships(d, p8 + 14, UnpackI32LE(d, p8 + 10), <<>>)
    IN  IF ~rels.ok THEN RecordError(rels.pos)
        ELSE RecordResult("keep", rels.pos, shorts,
                          MakeSim(UnpackI16LE(d, p8), UnpackU32LE(d, p8 + 2), nm, shorts,
                                  rels.relationships))

\* the part of a record after the trait block: ids, relationships, keep or discard
ParseRecordTail(d, p8, nm, person_mode, shorts) ==
    IF ~CanUnpack(d, p8, 2) \/ ~CanUnpack(d, p8 + 2, 4) \/ ~CanUnpack(d, p8 + 6, 4)
         \/ ~CanUnpack(d, p8 + 10, 4)
    THEN RecordError(p8)
    ELSE
    LET neighbour_id == UnpackI16LE(d, p8)
        g == UnpackU32LE(d, p8 + 2)
        rel_count == UnpackI32LE(d, p8 + 10)
        rels == ParseRelationships(d, p8 + 14, rel_count, <<>>)
    IN  IF ~rels.ok THEN RecordError(rels.pos)
        ELSE IF person_mode <= 0 \/ Len(shorts) < TraitShorts
        THEN RecordResult("discard", rels.pos, shorts, NoSim)
        ELSE RecordResult("keep", rels.pos, shorts,
                          MakeSim(neighbour_id, g, nm, shorts, rels.relationships))

\* the part of a record after the name: padding, reserved field, trait-mode, trait block
ParseRecordBody(d, p4, nbr_version, nm) ==
    LET p5 == IF Len(nm) % 2 = 0 THEN p4 + 1 ELSE p4
    IN  IF ~CanUnpack(d, p5, 4) \/ ~CanUnpack(d, p5 + 4, 4) THEN RecordError(p5)
        ELSE
        LET person_mode == UnpackI32LE(d, p5 + 4)
            p7 == p5 + 8
            person_data_size == IF nbr_version = ExtendedVersion THEN ExtendedBlockSize ELSE BlockSize
            num_shorts == Min(TraitShorts, person_data_size \div 2)
        IN  IF person_mode > 0
            THEN IF ~CanUnpack(d, p7, 2 * num_shorts) THEN RecordError(p7)
                 ELSE ParseRecordTail(d, p7 + person_data_size, nm, person_mode,
                          [i \in 1..num_shorts |-> UnpackI16LE(d, p7 + 2 * (i - 1))])
            ELSE ParseRecordTail(d, p7, nm, person_mode, <<>>)

\* one iteration of `for _ in range(count)`, from the presence marker at cursor p
ParseRecord(d, p) ==
    IF ~CanUnpack(d, p, 4) THEN RecordError(p)
    ELSE IF UnpackI32LE(d, p) # 1 THEN RecordResult("empty", p + 4, <<>>, NoSim)
    ELSE IF ~CanUnpack(d, p + 4, 4) THEN RecordError(p + 4)
    ELSE
    LET nbr_version == UnpackI32LE(d, p + 4)
        p3 == IF nbr_version = ExtendedVersion THEN p + 12 ELSE p + 8
    IN  IF nbr_version = ExtendedVersion /\ ~CanUnpack(d, p + 8, 4) THEN RecordError(p + 8)
        ELSE IF ~HasNull(d, p3) THEN RecordError(p3)
        ELSE ParseRecordBody(d, ReadNullTerminatedString(d, p3).pos, nbr_version,
                             ReadNullTerminatedString(d, p3).value)

(***************************************************************************)
(* _parse_nbrs: the header, then one action per way through a record.      *)
(***************************************************************************)
NbrsHeaderSize == 16

NbrsMagic(d) == DecodeAscii(Slice(d, 8, 12))

NoChunks == <<chunks, chunk_index, families, family_names>>

\* struct.unpack_from("<I I 4s I", data, 0) raises: the payload has no 16 bytes
NbrsHeaderError ==
    /\ pc = "nbrs_header"
    /\ ~CanUnpack(data, 0, NbrsHeaderSize)
    /\ error' = TRUE
    /\ pc' = "done"
    /\ UNCHANGED <<entry, data, pos, count, person_data_shorts, sims>>
    /\ UNCHANGED <<NoChunks, NoScan>>

\* `if magic != "SRBN": return sims`
NbrsBadMagic ==
    /\ pc = "nbrs_header"
    /\ CanUnpack(data, 0, NbrsHeaderSize)
    /\ NbrsMagic(data) # MagicSRBN
    /\ pos' = NbrsHeaderSize
    /\ pc' = "done"
    /\ UNCHANGED <<entry, data, count, person_data_shorts, sims, error>>
    /\ UNCHANGED <<NoChunks, NoScan>>

NbrsHeader ==
    /\ pc = "nbrs_header"
    /\ CanUnpack(data, 0, NbrsHeaderSize)
    /\ NbrsMagic(data) = MagicSRBN
    /\ count' = UnpackU32LE(data, 12)
    /\ pos' = NbrsHeaderSize
    /\ pc' = "nbrs_record"
    /\ UNCHANGED <<entry, data, person_data_shorts, sims, error>>
    /\ UNCHANGED <<NoChunks, NoScan>>

\* `if unknown1 != 1: continue`
NbrsEmptySlot ==
    /\ pc = "nbrs_record"
    /\ count > 0
    /\ ParseRecord(data, pos).status = "empty"
    /\ pos' = ParseRecord(data, pos).pos
    /\ count' = count - 1
    /\ UNCHANGED <<entry, pc, data, person_data_shorts, sims, error>>
    /\ UNCHANGED <<NoChunks, NoScan>>

\* `if person_mode <= 0 or len(person_data_shorts) < 88: continue`
NbrsDiscard ==
    /\ pc = "nbrs_record"
    /\ count > 0
    /\ ParseRecord(data, pos).status = "discard"
    /\ pos' = ParseRecord(data, pos).pos
    /\ count' = count - 1
    /\ person_data_shorts' = ParseRecord(data, pos).person_data_shorts
    /\ UNCHANGED <<entry, pc, data, sims, error>>
    /\ UNCHANGED <<NoChunks, NoScan>>

\* sims.append(sim)
NbrsAppend ==
    /\ pc = "nbrs_record"
    /\ count > 0
    /\ ParseRecord(data, pos).status = "keep"
    /\ pos' = ParseRecord(data, pos).pos
    /\ count' = count - 1
    /\ person_data_shorts' = ParseRecord(data, pos).person_data_shorts
    /\ sims' = Append(sims, ParseRecord(data, pos).sim)
    /\ UNCHANGED <<entry, pc, data, error>>
    /\ UNCHANGED <<NoChunks, NoScan>>

\* a read of the record raises struct.error or ValueError
NbrsRecordError ==
    /\ pc = "nbrs_record"
    /\ count > 0
    /\ ParseRecord(data, pos).status = "error"
    /\ error' = TRUE
    /\ pc' = "done"
    /\ UNCHANGED <<entry, data, pos, count, person_data_shorts, sims>>
    /\ UNCHANGED <<NoChunks, NoScan>>

\* range(count) is exhausted: return sims
NbrsReturn ==
    /\ pc = "nbrs_record"
    /\ count = 0
    /\ pc' = "done"
    /\ UNCHANGED <<entry, data, pos, count, person_data_shorts, sims, error>>
    /\ UNCHANGED <<NoChunks, NoScan>>

NbrsStep ==
    \/ NbrsHeaderError \/ NbrsBadMagic \/ NbrsHeader \/ NbrsEmptySlot
    \/ NbrsDiscard \/ NbrsAppend \/ NbrsRecordError \/ NbrsReturn

\* the loop of _parse_nbrs as a function: n records from cursor p, appended to acc
RECURSIVE ParseNbrsRecords(_, _, _, _)
ParseNbrsRecords(d, p, n, acc) ==
    IF n = 0 THEN [error |-> FALSE, sims |-> acc]
    ELSE LET r == ParseRecord(d, p)
         IN  IF r.status = "error" THEN [error |-> TRUE, sims |-> <<>>]
             ELSE ParseNbrsRecords(d, r.pos, n - 1,
                      IF r.status = "keep" THEN Append(acc, r.sim) ELSE acc)

\* _parse_nbrs(data) as called by parse_neighborhood
ParseNbrs(d) ==
    IF ~CanUnpack(d, 0, NbrsHeaderSize) THEN [error |-> TRUE, sims |-> <<>>]
    ELSE IF NbrsMagic(d) # MagicSRBN THEN [error |-> FALSE, sims |-> <<>>]
    ELSE ParseNbrsRecords(d, NbrsHeaderSize, UnpackU32LE(d, 12), <<>>)

(***************************************************************************)
(* Input buffers: the on-disk layouts the readers above decode.            *)
(***************************************************************************)
MaxRecords == 2

EncU16(v) == LET u == IF v < 0 THEN v + 65536 ELSE v IN <<u % 256, u \div 256>>

EncU16BE(v) == <<v \div 256, v % 256>>

\* little-endian two's complement of a 32-bit value
EncI32(v) ==
    LET w == IF v < 0 THEN -(v + 1) ELSE v
        b(k) == IF v < 0 THEN 255 - k ELSE k
    IN  <<b(w % 256), b((w \div 256) % 256), b((w \div 65536) % 256), b(w \div 16777216)>>

EncU32BE(v) == <<v \div 16777216, (v \div 65536) % 256, (v \div 256) % 256, v % 256>>

RECURSIVE Concat(_)
Concat(ss) == IF ss = <<>> THEN <<>> ELSE Head(ss) \o Concat(Tail(ss))

\* a trait vector that is 0 except at the interest, age, family and gender indices
TraitVector(b0, bRest, h0, hRest, age, fam, gender) ==
    [i \in 0..(TraitShorts - 1) |->
        IF i = 46 THEN b0
        ELSE IF i \in 47..53 THEN bRest
        ELSE IF i = 13 THEN h0
        ELSE IF i \in {14, 16, 20, 26, 54, 55} THEN hRest
        ELSE IF i = 58 THEN age
        ELSE IF i = 61 THEN fam
        ELSE IF i = 65 THEN gender
        ELSE 0]

\* the trait block of a record: the shorts, then padding up to the block size
EncTraitBlock(tv, size) ==
    [k \in 1..size |->
        LET i == (k - 1) \div 2
            bytes == EncU16(IF i < TraitShorts THEN tv[i] ELSE 0)
        IN  bytes[((k - 1) % 2) + 1]]

EncRelationship(rel) ==
    EncI32(Len(rel.keys)) \o Concat([i \in 1..Len(rel.keys) |-> EncI32(rel.keys[i])])
      \o EncI32(Len(rel.vals)) \o Concat([i \in 1..Len(rel.vals) |-> EncI32(rel.vals[i])])

\* one roster record as laid out in the file
EncRecord(r) ==
    IF r.marker # 1 THEN EncI32(r.marker)
    ELSE EncI32(1) \o EncI32(r.version)
           \o (IF r.version = ExtendedVersion THEN EncI32(0) ELSE <<>>)
           \o r.name \o <<0>> \o (IF Len(r.name) % 2 = 0 THEN <<0>> ELSE <<>>)
           \o EncI32(0) \o EncI32(r.mode)
           \o (IF r.mode > 0
               THEN EncTraitBlock(r.tv, IF r.version = ExtendedVersion
                                        THEN ExtendedBlockSize ELSE BlockSize)
               ELSE <<>>)
           \o EncU16(r.id) \o EncI32(r.guid) \o EncI32(-1)
           \o EncI32(Len(r.rels)) \o Concat([i \in 1..Len(r.rels) |-> EncRelationship(r.rels[i])])

EncNbrs(magic, n, records) ==
    EncI32(0) \o EncI32(1) \o magic \o EncI32(n)
      \o Concat([i \in 1..Len(records) |-> EncRecord(records[i])])

Record(version, nm, mode, tv, id, g, rels) ==
    [marker |-> 1, version |-> version, name |-> nm, mode |-> mode, tv |-> tv,
     id |-> id, guid |-> g, rels |-> rels]

EmptySlot == [marker |-> 0]

DefaultTraits == TraitVector(5, 5, 700, 700, 30, 0, 1)

\* raw interest values around the scaling threshold and the ends of the 0..1000 scale
RawValues == {-1, 0, 10, 11, 1000, 1001}

RawAges == {-1, 0, 17, 18, 19}

NameBob == <<66, 111, 98>>

NameAl == <<65, 108>>

\* records that differ in their interest values
InterestRecords ==
    {Record(ExtendedVersion, NameBob, 1, TraitVector(b0, bRest, h0, hRest, 30, 0, 0), 1, 100, <<>>) :
        b0 \in RawValues, bRest \in {0, 10}, h0 \in RawValues, hRest \in {0, 10}}
    \cup
    {Record(ExtendedVersion, NameBob, 1, TraitVector(b, b, h, h, 30, 0, 0), 1, 100, <<>>) :
        b \in RawValues, h \in RawValues}

\* records that differ in their age value
AgeRecords ==
    {Record(ExtendedVersion, NameAl, 1, TraitVector(5, 5, 5, 5, age, 0, g), 2, 200, <<>>) :
        age \in RawAges, g \in {0, 1}}

\* the shapes a record takes: empty slot, kept, no trait block, short trait block
RecordShapes ==
    {EmptySlot,
     Record(ExtendedVersion, NameBob, 1, DefaultTraits, 1, 100,
            <<[keys |-> <<2>>, vals |-> <<50, 1, 60>>]>>),
     Record(ExtendedVersion, NameAl, 0, DefaultTraits, 2, 200, <<>>),
     Record(1, NameAl, 1, DefaultTraits, 3, 300, <<[keys |-> <<1, 9>>, vals |-> <<7>>]>>),
     \* a sub-record without keys
     Record(ExtendedVersion, NameBob, 1, DefaultTraits, 4, 400,
            <<[keys |-> <<>>, vals |-> <<50, 1, 60>>]>>),
     \* sub-records of the same first key, and of 0, 2 and 4 values
     Record(ExtendedVersion, NameAl, 1, DefaultTraits, 5, 500,
            <<[keys |-> <<2, 5>>, vals |-> <<>>], [keys |-> <<4>>, vals |-> <<7, 0>>],
              [keys |-> <<2>>, vals |-> <<-5, 2, 9, 77>>]>>)}

RecordLists == UNION {[1..n -> RecordShapes] : n \in 0..MaxRecords}

MagicXRBN == <<88, 82, 66, 78>>

\* payloads cut short of a full decode: by a few bytes, and inside the header
Truncations(payload) ==
    {SubSeq(payload, 1, n) : n \in {0, 8, 12, 15, 16, 20, Len(payload) - 1} \cap 0..Len(payload)}

NbrsPayloads ==
    {EncNbrs(MagicSRBN, 1, <<r>>) : r \in InterestRecords \cup AgeRecords}
    \cup {EncNbrs(MagicSRBN, Len(rs), rs) : rs \in RecordLists}
    \cup {EncNbrs(MagicXRBN, Len(rs), rs) : rs \in RecordLists}
    \cup UNION {Truncations(EncNbrs(m, Len(rs), rs)) : m \in {MagicSRBN, MagicXRBN}, rs \in RecordLists}

(***************************************************************************)
(* Specification of _parse_nbrs applied to roster payloads.                *)
(***************************************************************************)
\* main.py as imported: the globals are empty, lifespan has not run, nothing is ranked
ModuleImported ==
    /\ _portraits = <<>> /\ _families = <<>> /\ _sims = <<>>
    /\ _sims_by_id = <<>> /\ _family_by_number = <<>>
    /\ load_index = 0 /\ response = None

NoRanking == source_sim = None /\ candidates = <<>> /\ rankings = None

NotStarted == load_pc = "imported" /\ ModuleImported /\ NoRanking

NothingDecoded ==
    /\ chunks = <<>> /\ chunk_index = 0 /\ count = 0 /\ person_data_shorts = <<>>
    /\ sims = <<>> /\ families = <<>> /\ family_names = <<>> /\ files = <<>>
    /\ name = None /\ guid = None /\ portrait = None /\ guid_to_info = <<>> /\ value = <<>>
    /\ error = FALSE

Idle == NothingDecoded /\ NotStarted

InitNbrs ==
    /\ entry = "_parse_nbrs"
    /\ pc = "nbrs_header"
    /\ data \in NbrsPayloads
    /\ Idle
    /\ pos = 0

SpecNbrs == InitNbrs /\ [][NbrsStep]_vars

(***************************************************************************)
(* Properties of _parse_nbrs.                                              *)
(***************************************************************************)
Last(seq) == seq[Len(seq)]

\* the record just decoded was appended to sims
Emitted == Len(sims') = Len(sims) + 1

InterestsOf(sim) ==
    <<sim.interests.exercise, sim.interests.food, sim.interests.parties, sim.interests.style,
      sim.interests.hollywood, sim.interests.travel, sim.interests.violence,
      sim.interests.politics, sim.interests.sixties, sim.interests.weather,
      sim.interests.sports, sim.interests.music, sim.interests.outdoors,
      sim.interests.technology, sim.interests.romance>>

\* C3: every interest value of every emitted Sim lies in 0..1000.
C3_InterestsInRange ==
    \A i \in 1..Len(sims) : \A k \in 1..15 : InterestsOf(sims[i])[k] \in 0..1000

BaseOut(sim) ==
    <<sim.interests.travel, sim.interests.violence, sim.interests.politics, sim.interests.sixties,
      sim.interests.weather, sim.interests.sports, sim.interests.music, sim.interests.outdoors>>

HotdateOut(sim) ==
    <<sim.interests.exercise, sim.interests.food, sim.interests.parties, sim.interests.style,
      sim.interests.hollywood, sim.interests.technology, sim.interests.romance>>

BaseIn(shorts) ==
    <<shorts[47], shorts[48], shorts[49], shorts[50], shorts[51], shorts[52], shorts[53], shorts[54]>>

HotdateIn(shorts) ==
    <<shorts[14], shorts[15], shorts[17], shorts[21], shorts[27], shorts[55], shorts[56]>>

\* a group is scaled by 100 when all its raw values are at most 10, else passed through
GroupNormalized(in, out) ==
    /\ (\A i \in 1..Len(in) : in[i] <= 10) => \A i \in 1..Len(in) : out[i] = in[i] * 100
    /\ (\E i \in 1..Len(in) : in[i] > 10) => out = in

\* C4: each interest group of an emitted Sim is normalized by its own raw values only:
\* all raw values at most 10 gives raw x 100, any raw value above 10 gives raw.
C4_GroupsIndependent ==
    [][Emitted =>
         /\ GroupNormalized(BaseIn(person_data_shorts'), BaseOut(Last(sims')))
         /\ GroupNormalized(HotdateIn(person_data_shorts'), HotdateOut(Last(sims')))]_vars

\* a Sim was emitted whose base group was scaled while its other group was passed through
C4_Witness ==
    /\ entry = "_parse_nbrs" /\ Len(sims) = 1 /\ Len(person_data_shorts) = TraitShorts
    /\ BaseIn(person_data_shorts)[1] = 10 /\ sims[1].interests.travel = 1000
    /\ HotdateIn(person_data_shorts)[1] = 11 /\ sims[1].interests.exercise = 11

\* C9: a payload whose magic is not "SRBN" yields an empty list and no error.
C9_BadMagicEmpty ==
    (entry = "_parse_nbrs" /\ pc = "done" /\ Len(data) >= 12 /\ NbrsMagic(data) # MagicSRBN)
        => (~error /\ sims = <<>>)

\* C10: an emitted Sim is a child when trait index 58 is below 18, an adult otherwise.
C10_AgeThreshold ==
    [][Emitted =>
         /\ (Last(sims').age = "child") <=> (person_data_shorts'[59] < 18)
         /\ (Last(sims').age = "adult") <=> (person_data_shorts'[59] >= 18)]_vars

\* a Sim with age value 18 was emitted as an adult
C10_Witness ==
    /\ entry = "_parse_nbrs" /\ Len(sims) = 1 /\ Len(person_data_shorts) = TraitShorts
    /\ person_data_shorts[59] = 18 /\ sims[1].age = "adult"

(***************************************************************************)
(* Container files for _read_chunks.                                       *)
(***************************************************************************)
MaxChunks == 3

TagNBRS == <<78, 66, 82, 83>>

TagFAMI == <<70, 65, 77, 73>>

TagFAMs == <<70, 65, 77, 115>>

TagXXXX == <<88, 88, 88, 88>>

\* a 76-byte chunk header declaring `size` as the total size, followed by `body`
EncChunk(type, size, id, body) ==
    type \o EncU32BE(size) \o EncU16BE(id) \o Zeros(ChunkHeaderSize - 10) \o body

\* a chunk whose declared size is the size it has
WellFormed(type, id, payload) == EncChunk(type, ChunkHeaderSize + Len(payload), id, payload)

ChunkShapes ==
    {WellFormed(TagNBRS, 1, <<1, 2>>),
     WellFormed(TagXXXX, 258, <<>>),
     EncChunk(TagXXXX, 10, 2, <<>>),            \* declared size below the header size
     EncChunk(TagFAMI, 0, 3, <<7, 7>>),         \* the same, with bytes before the next header
     EncChunk(TagNBRS, ChunkHeaderSize + 50, 4, <<1, 2>>)}   \* declared size past its bytes

ChunkLists == UNION {[1..n -> ChunkShapes] : n \in 0..MaxChunks}

ContainerFiles ==
    {Zeros(FileHeaderSize) \o Concat(cs) \o tail : cs \in ChunkLists, tail \in {<<>>, <<1, 2, 3>>}}
    \cup {<<>>, Zeros(10)}

InitChunks ==
    /\ entry = "_read_chunks"
    /\ pc = "read_chunks"
    /\ data \in ContainerFiles
    /\ Idle
    /\ pos = FileHeaderSize

SpecChunks == InitChunks /\ [][ReadChunksStep]_vars

\* the header at the cursor, read byte by byte
HeaderVisible == pc = "read_chunks" /\ pos + 76 <= Len(data)

DeclaredSize == 16777216 * data[pos + 5] + 65536 * data[pos + 6] + 256 * data[pos + 7] + data[pos + 8]

DeclaredChunk ==
    [chunk_type |-> SubSeq(data, pos + 1, pos + 4),
     chunk_id |-> 256 * data[pos + 9] + data[pos + 10],
     chunk_data |-> SubSeq(data, pos + 77, Min(pos + DeclaredSize, Len(data)))]

\* C1: a header declaring less than 76 bytes is not yielded and moves the cursor by 76;
\* the scan goes on until fewer than 76 bytes remain, and every well-formed header the
\* cursor reaches is appended to the chunks, in the order it is reached.
C1_MalformedSkipped ==
    [][/\ (HeaderVisible /\ DeclaredSize < 76)
            => (pos' = pos + 76 /\ chunks' = chunks /\ pc' = "read_chunks")
       /\ (HeaderVisible /\ DeclaredSize >= 76)
            => (chunks' = Append(chunks, DeclaredChunk) /\ pc' = "read_chunks")
       /\ (pc = "read_chunks" /\ pc' # "read_chunks") => pos + 76 > Len(data)]_vars

\* a file that starts with a malformed header was scanned to its end and yielded a chunk
C1_Witness ==
    /\ entry = "_read_chunks" /\ pc = "done"
    /\ Len(data) >= 140
    /\ 16777216 * data[69] + 65536 * data[70] + 256 * data[71] + data[72] = 10
    /\ Len(chunks) >= 1

\* C8 (chunk reader): a chunk whose declared size runs past the end of the buffer makes
\* the decode fail; the cursor is past the end only after such a chunk.
C8_TruncationFails ==
    (entry = "_read_chunks" /\ pc = "done" /\ pos > Len(data)) => error

(***************************************************************************)
(* _parse_fams                                                             *)
(***************************************************************************)
SupportedFormat == -3

\* the payload is too short, of another format, or has no strings
FamsUnsupported(d) ==
    IF Len(d) < 4 THEN TRUE
    ELSE UnpackI16LE(d, 0) # SupportedFormat \/ UnpackU16LE(d, 2) = 0

FamsResult(err, v) == [error |-> err, value |-> v]

\* the first string read from offset 4, without the language code skipped
ParseFamsNoLang(d) ==
    IF FamsUnsupported(d) THEN FamsResult(FALSE, <<>>)
    ELSE IF ~(4 < Len(d)) THEN FamsResult(TRUE, <<>>)
    ELSE IF ~HasNull(d, 4) THEN FamsResult(TRUE, <<>>)
    ELSE FamsResult(FALSE, ReadNullTerminatedString(d, 4).value)

\* _parse_fams(data): the string returned, or the exception raised
ParseFams(d) ==
    IF FamsUnsupported(d) THEN FamsResult(FALSE, <<>>)
    ELSE IF ~(4 < Len(d)) THEN FamsResult(TRUE, <<>>)           \* data[pos]: IndexError
    ELSE IF ~HasNull(d, 5) THEN FamsResult(TRUE, <<>>)          \* data.index: ValueError
    ELSE FamsResult(FALSE, ReadNullTerminatedString(d, 5).value)

NoFams == <<entry, data, pos, chunks, chunk_index, count, person_data_shorts, sims,
            families, family_names, files, name, guid, portrait, guid_to_info, NoService>>

\* `return ""`: short payload, unsupported format or no strings
FamsEmpty ==
    /\ pc = "parse_fams"
    /\ FamsUnsupported(data)
    /\ value' = ParseFams(data).value
    /\ error' = ParseFams(data).error
    /\ pc' = "done"
    /\ UNCHANGED NoFams

\* `return value`
FamsValue ==
    /\ pc = "parse_fams"
    /\ ~FamsUnsupported(data)
    /\ ~ParseFams(data).error
    /\ value' = ParseFams(data).value
    /\ pc' = "done"
    /\ UNCHANGED <<NoFams, error>>

\* the language code or the terminator is missing: IndexError or ValueError
FamsError ==
    /\ pc = "parse_fams"
    /\ ParseFams(data).error
    /\ error' = TRUE
    /\ pc' = "done"
    /\ UNCHANGED <<NoFams, value>>

FamsStep == FamsEmpty \/ FamsValue \/ FamsError

MaxTail == 3

TailBytes == {0, 65, 200}

Tails == UNION {[1..n -> TailBytes] : n \in 0..MaxTail}

\* string tables: format code, string count, then the bytes of the first entry
FamsPayloads ==
    {fmt \o cnt \o tail :
        fmt \in {EncU16(SupportedFormat), EncU16(5), EncU16(253), EncU16(-1)},
        cnt \in {EncU16(0), EncU16(1), EncU16(256)},
        tail \in Tails}
    \cup {<<>>, <<253>>, <<253, 255>>, <<253, 255, 1>>}

InitFams ==
    /\ entry = "_parse_fams"
    /\ pc = "parse_fams"
    /\ data \in FamsPayloads
    /\ Idle
    /\ pos = 0

SpecFams == InitFams /\ [][FamsStep]_vars

\* the two header fields of a string table, read byte by byte
FormatCode == LET u == data[1] + 256 * data[2] IN IF u >= 32768 THEN u - 65536 ELSE u

StringCount == data[3] + 256 * data[4]

\* C7: _parse_fams returns "" without an error when the format code is not -3 or the
\* count is 0; for format -3 and a count above 0 it returns the bytes between the
\* language code and the first zero byte after it.
C7_FamsFirstString ==
    (entry = "_parse_fams" /\ pc = "done") =>
      IF Len(data) < 4 THEN ~error /\ value = <<>>
      ELSE
        /\ (FormatCode # -3 \/ StringCount = 0) => (~error /\ value = <<>>)
        /\ (FormatCode = -3 /\ StringCount > 0 /\ \E i \in 6..Len(data) : data[i] = 0) =>
              /\ ~error
              /\ 6 + Len(value) <= Len(data)
              /\ data[6 + Len(value)] = 0
              /\ \A i \in 1..Len(value) :
                    /\ data[5 + i] # 0
                    /\ value[i] = IF data[5 + i] < 128 THEN data[5 + i] ELSE 65533

\* a table of the unsupported format 5 holding a string was decoded to "" without error
C7_Witness ==
    /\ entry = "_parse_fams" /\ pc = "done"
    /\ Len(data) = 7 /\ FormatCode = 5 /\ StringCount = 1 /\ data[6] = 65 /\ data[7] = 0
    /\ ~error /\ value = <<>>

(***************************************************************************)
(* _scan_characters: one action per file skipped or opened, per chunk      *)
(* examined, and per way out of the chunk loop.  A missing Characters      *)
(* directory gives the result of an empty one: files = <<>>.               *)
(***************************************************************************)
TagCTSS == <<67, 84, 83, 83>>

TagOBJD == <<79, 66, 74, 68>>

TagBMP == <<66, 77, 80, 95>>

PortraitId == 2007

BitmapSignature == <<66, 77>>

GuidOffset == 28

\* the name a CTSS payload gives, or None (lines 445-456)
ScanName(chunk_data) ==
    IF Len(chunk_data) >= 6 /\ UnpackI16LE(chunk_data, 0) = SupportedFormat
         /\ UnpackU16LE(chunk_data, 2) > 0
    THEN LET off == IF HasNull(chunk_data, 5) THEN NullIndex(chunk_data, 5) ELSE Len(chunk_data)
         IN  Some(DecodeAscii(Slice(chunk_data, 5, off)))
    ELSE None

\* the guid an OBJD payload gives, or None (lines 458-459)
ScanGuid(chunk_data) ==
    IF Len(chunk_data) >= 32 THEN Some(UnpackU32LE(chunk_data, GuidOffset)) ELSE None

\* the portrait a BMP_ chunk gives, or None (lines 461-468)
ScanPortrait(chunk_id, chunk_data) ==
    IF chunk_id = PortraitId /\ Len(chunk_data) >= 2 /\ Slice(chunk_data, 0, 2) = BitmapSignature
    THEN Some(chunk_data)
    ELSE None

NoParse == <<entry, chunks, chunk_index, count, person_data_shorts, sims, families,
             family_names, value, error, NoService>>

\* where _scan_characters returns to
AfterScan == IF entry = "parse_neighborhood" THEN "rename" ELSE "done"

\* `if filepath.suffix.lower() != ".iff": continue` and `if len(data) < 64: continue`
ScanSkipFile ==
    /\ pc = "scan_file"
    /\ files # <<>>
    /\ ~Head(files).iff \/ Len(Head(files).data) < FileHeaderSize
    /\ files' = Tail(files)
    /\ UNCHANGED <<pc, data, pos, name, guid, portrait, guid_to_info>>
    /\ UNCHANGED NoParse

\* data = filepath.read_bytes(); name = guid = portrait = None; pos = 64
ScanOpenFile ==
    /\ pc = "scan_file"
    /\ files # <<>>
    /\ Head(files).iff
    /\ ~(Len(Head(files).data) < FileHeaderSize)
    /\ data' = Head(files).data
    /\ pos' = FileHeaderSize
    /\ name' = None /\ guid' = None /\ portrait' = None
    /\ pc' = "scan_chunk"
    /\ UNCHANGED <<files, guid_to_info>>
    /\ UNCHANGED NoParse

\* one pass through the body of `while pos + 76 <= len(data)`
ScanChunk ==
    /\ pc = "scan_chunk"
    /\ pos + ChunkHeaderSize <= Len(data)
    /\ ~(ChunkSize(data, pos) < ChunkHeaderSize)
    /\ name' = IF ChunkType(data, pos) = TagCTSS /\ name = None
               THEN ScanName(ChunkData(data, pos)) ELSE name
    /\ guid' = IF ChunkType(data, pos) = TagOBJD /\ guid = None
               THEN ScanGuid(ChunkData(data, pos)) ELSE guid
    /\ portrait' = IF ChunkType(data, pos) = TagBMP /\ portrait = None
                   THEN ScanPortrait(ChunkId(data, pos), ChunkData(data, pos)) ELSE portrait
    /\ pos' = pos + ChunkSize(data, pos)
    /\ UNCHANGED <<pc, data, files, guid_to_info>>
    /\ UNCHANGED NoParse

\* `if chunk_size < 76: break`
ScanBreak ==
    /\ pc = "scan_chunk"
    /\ pos + ChunkHeaderSize <= Len(data)
    /\ ChunkSize(data, pos) < ChunkHeaderSize
    /\ pc' = "scan_close"
    /\ UNCHANGED <<data, pos, files, name, guid, portrait, guid_to_info>>
    /\ UNCHANGED NoParse

\* the loop condition `pos + 76 <= len(data)` is false
ScanLoopExit ==
    /\ pc = "scan_chunk"
    /\ ~(pos + ChunkHeaderSize <= Len(data))
    /\ pc' = "scan_close"
    /\ UNCHANGED <<data, pos, files, name, guid, portrait, guid_to_info>>
    /\ UNCHANGED NoParse

\* the condition of `if guid is not None and name:` with the name only required to be set
ScanKeepsAnyName == guid # None /\ name # None

\* `if guid is not None and name:`
ScanKeeps == guid # None /\ name # None /\ name # Some(<<>>)

\* guid_to_info[guid] = CharacterInfo(name=name, portrait=portrait)
ScanStore ==
    /\ pc = "scan_close"
    /\ ScanKeeps
    /\ guid_to_info' = [g \in (DOMAIN guid_to_info) \cup {guid[1]} |->
                           IF g = guid[1] THEN [name |-> name[1], portrait |-> portrait]
                           ELSE guid_to_info[g]]
    /\ files' = Tail(files)
    /\ pc' = "scan_file"
    /\ UNCHANGED <<data, pos, name, guid, portrait>>
    /\ UNCHANGED NoParse

\* the file contributes nothing
ScanDrop ==
    /\ pc = "scan_close"
    /\ ~ScanKeeps
    /\ files' = Tail(files)
    /\ pc' = "scan_file"
    /\ UNCHANGED <<data, pos, name, guid, portrait, guid_to_info>>
    /\ UNCHANGED NoParse

\* every file was scanned: return guid_to_info
ScanReturn ==
    /\ pc = "scan_file"
    /\ files = <<>>
    /\ pc' = AfterScan
    /\ UNCHANGED <<data, pos, files, name, guid, portrait, guid_to_info>>
    /\ UNCHANGED NoParse

ScanStep ==
    \/ ScanSkipFile \/ ScanOpenFile \/ ScanChunk \/ ScanBreak \/ ScanLoopExit
    \/ ScanStore \/ ScanDrop \/ ScanReturn

(***************************************************************************)
(* Character files for _scan_characters.                                   *)
(***************************************************************************)
MaxFileChunks == 3

NameBo == <<66, 111>>

EncObjd(g) == WellFormed(TagOBJD, 1, Zeros(GuidOffset) \o EncI32(g))

\* a string table of one entry: language code, name, terminator, empty comment
EncCtss(fmt, nm) == WellFormed(TagCTSS, 2, EncU16(fmt) \o EncU16(1) \o <<0>> \o nm \o <<0, 0>>)

FileChunkShapes ==
    {EncObjd(100),
     EncObjd(0),
     WellFormed(TagOBJD, 1, Zeros(10)),                         \* too short for a guid
     EncCtss(SupportedFormat, NameAl),
     EncCtss(SupportedFormat, <<>>),                            \* an empty name
     EncCtss(5, NameAl),                                        \* unsupported format
     WellFormed(TagCTSS, 2, EncU16(SupportedFormat) \o EncU16(1) \o <<0>> \o NameBo),
     WellFormed(TagBMP, PortraitId, BitmapSignature \o <<1>>),
     WellFormed(TagBMP, 1, BitmapSignature \o <<2>>),           \* another image
     EncChunk(TagXXXX, 10, 3, <<>>)}                            \* malformed header

FileChunkLists == UNION {[1..n -> FileChunkShapes] : n \in 0..MaxFileChunks}

CharFile(bytes) == [iff |-> TRUE, data |-> bytes]

CharFiles == {CharFile(Zeros(FileHeaderSize) \o Concat(cs)) : cs \in FileChunkLists}

FileAl == CharFile(Zeros(FileHeaderSize) \o EncObjd(100) \o EncCtss(SupportedFormat, NameAl))

FileBo == CharFile(Zeros(FileHeaderSize) \o EncCtss(SupportedFormat, NameBo) \o EncObjd(100)
                     \o WellFormed(TagBMP, PortraitId, BitmapSignature))

Directories ==
    {<<f>> : f \in CharFiles}
    \cup {<<>>, <<FileAl, FileBo>>, <<FileBo, FileAl>>,
          <<[iff |-> FALSE, data |-> FileAl.data], FileBo>>,
          <<CharFile(Zeros(10)), FileAl>>}

InitChars ==
    /\ entry = "_scan_characters"
    /\ pc = "scan_file"
    /\ data = <<>>
    /\ pos = 0
    /\ chunks = <<>> /\ chunk_index = 0 /\ count = 0 /\ person_data_shorts = <<>>
    /\ sims = <<>> /\ families = <<>> /\ family_names = <<>>
    /\ name = None /\ guid = None /\ portrait = None /\ guid_to_info = <<>> /\ value = <<>>
    /\ error = FALSE
    /\ NotStarted
    /\ files \in Directories

SpecChars == InitChars /\ [][ScanStep]_vars

\* C6: when the scan of a file ends, the file is put into the mapping exactly if it
\* gave a guid and a non-empty name, with the portrait it gave or None; otherwise the
\* mapping is left as it was.
C6_EntryIffGuidAndName ==
    [][pc = "scan_close" =>
         IF guid # None /\ name # None /\ Len(name[1]) > 0
         THEN /\ guid[1] \in DOMAIN guid_to_info'
              /\ guid_to_info'[guid[1]] = [name |-> name[1], portrait |-> portrait]
              /\ \A g \in DOMAIN guid_to_info' :
                    g # guid[1] => (g \in DOMAIN guid_to_info /\ guid_to_info'[g] = guid_to_info[g])
         ELSE guid_to_info' = guid_to_info]_vars

\* a file with an OBJD chunk and a CTSS chunk and no portrait chunk gave an entry
\* with a name and no portrait
C6_Witness ==
    /\ entry = "_scan_characters" /\ pc = "done"
    /\ data = FileAl.data
    /\ DOMAIN guid_to_info = {100}
    /\ guid_to_info[100] = [name |-> NameAl, portrait |-> None]

(***************************************************************************)
(* _parse_fami                                                             *)
(***************************************************************************)
MagicIMAF == <<73, 77, 65, 70>>

FamiMinSize == 40

\* the member loop: n guids from cursor q
RECURSIVE ParseMembers(_, _, _, _)
ParseMembers(d, q, n, guids) ==
    IF n <= 0 THEN [ok |-> TRUE, guids |-> guids]
    ELSE IF ~CanUnpack(d, q, 4) THEN [ok |-> FALSE, guids |-> guids]
    ELSE ParseMembers(d, q + 4, n - 1, Append(guids, UnpackU32LE(d, q)))

NoFamily == [chunk_id |-> 0, family_number |-> 0, name |-> <<>>, house_number |-> 0,
             budget |-> 0, member_guids |-> <<>>]

FamiResult(err, found, family) == [error |-> err, found |-> found, family |-> family]

\* _parse_fami(data, chunk_id): a Family, None, or the exception raised
ParseFami(d, chunk_id) ==
    IF Len(d) < FamiMinSize THEN FamiResult(FALSE, FALSE, NoFamily)
    ELSE IF DecodeAscii(Slice(d, 8, 12)) # MagicIMAF THEN FamiResult(FALSE, FALSE, NoFamily)
    ELSE LET members == ParseMembers(d, 40, UnpackI32LE(d, 36), <<>>)
         IN  IF ~members.ok THEN FamiResult(TRUE, FALSE, NoFamily)
             ELSE FamiResult(FALSE, TRUE,
                      [chunk_id |-> chunk_id, family_number |-> UnpackI32LE(d, 16),
                       name |-> <<>>, house_number |-> UnpackI32LE(d, 12),
                       budget |-> UnpackI32LE(d, 20), member_guids |-> members.guids])

(***************************************************************************)
(* parse_neighborhood: _read_chunks, the first pass over the chunks, the   *)
(* two joins, _scan_characters and the renaming of the sims.               *)
(***************************************************************************)
NoDispatch == <<entry, data, pos, chunks, count, person_data_shorts, files, name, guid,
                portrait, guid_to_info, value, NoService>>

NextChunk == chunks[chunk_index + 1]

\* `if chunk_type == "NBRS": sims.extend(_parse_nbrs(chunk_data))`
DispatchNbrs ==
    /\ pc = "dispatch"
    /\ chunk_index < Len(chunks)
    /\ NextChunk.chunk_type = TagNBRS
    /\ ~ParseNbrs(NextChunk.chunk_data).error
    /\ sims' = sims \o ParseNbrs(NextChunk.chunk_data).sims
    /\ chunk_index' = chunk_index + 1
    /\ UNCHANGED <<pc, families, family_names, error>>
    /\ UNCHANGED NoDispatch

\* `elif chunk_type == "FAMI"`: the family is appended unless _parse_fami gave None
DispatchFami ==
    /\ pc = "dispatch"
    /\ chunk_index < Len(chunks)
    /\ NextChunk.chunk_type = TagFAMI
    /\ ~ParseFami(NextChunk.chunk_data, NextChunk.chunk_id).error
    /\ families' = IF ParseFami(NextChunk.chunk_data, NextChunk.chunk_id).found
                   THEN Append(families, ParseFami(NextChunk.chunk_data, NextChunk.chunk_id).family)
                   ELSE families
    /\ chunk_index' = chunk_index + 1
    /\ UNCHANGED <<pc, sims, family_names, error>>
    /\ UNCHANGED NoDispatch

\* `elif chunk_type == "FAMs"`: the name is recorded under the chunk id unless it is empty
DispatchFams ==
    /\ pc = "dispatch"
    /\ chunk_index < Len(chunks)
    /\ NextChunk.chunk_type = TagFAMs
    /\ ~ParseFams(NextChunk.chunk_data).error
    /\ family_names' =
         IF ParseFams(NextChunk.chunk_data).value # <<>>
         THEN [k \in (DOMAIN family_names) \cup {NextChunk.chunk_id} |->
                  IF k = NextChunk.chunk_id THEN ParseFams(NextChunk.chunk_data).value
                  ELSE family_names[k]]
         ELSE family_names
    /\ chunk_index' = chunk_index + 1
    /\ UNCHANGED <<pc, sims, families, error>>
    /\ UNCHANGED NoDispatch

\* a chunk of any other type is passed over
DispatchOther ==
    /\ pc = "dispatch"
    /\ chunk_index < Len(chunks)
    /\ NextChunk.chunk_type \notin {TagNBRS, TagFAMI, TagFAMs}
    /\ chunk_index' = chunk_index + 1
    /\ UNCHANGED <<pc, sims, families, family_names, error>>
    /\ UNCHANGED NoDispatch

\* the parser of the chunk raises: parse_neighborhood returns nothing
ChunkRaises(c) ==
    IF c.chunk_type = TagNBRS THEN ParseNbrs(c.chunk_data).error
    ELSE IF c.chunk_type = TagFAMI THEN ParseFami(c.chunk_data, c.chunk_id).error
    ELSE IF c.chunk_type = TagFAMs THEN ParseFams(c.chunk_data).error
    ELSE FALSE

DispatchError ==
    /\ pc = "dispatch"
    /\ chunk_index < Len(chunks)
    /\ ChunkRaises(NextChunk)
    /\ error' = TRUE
    /\ pc' = "done"
    /\ UNCHANGED <<chunk_index, sims, families, family_names>>
    /\ UNCHANGED NoDispatch

\* the family names looked up under the in-game family number
JoinedFamiliesByNumber(fams, names) ==
    [i \in 1..Len(fams) |->
        IF fams[i].family_number \in DOMAIN names
        THEN [fams[i] EXCEPT !.name = names[fams[i].family_number]]
        ELSE fams[i]]

\* family.name = family_names[family.chunk_id] for each family whose chunk id has a name
JoinedFamilies(fams, names) ==
    [i \in 1..Len(fams) |->
        IF fams[i].chunk_id \in DOMAIN names
        THEN [fams[i] EXCEPT !.name = names[fams[i].chunk_id]]
        ELSE fams[i]]

\* the first pass is over: match family names by chunk id
JoinNames ==
    /\ pc = "dispatch"
    /\ chunk_index = Len(chunks)
    /\ families' = JoinedFamilies(families, family_names)
    /\ pc' = "assign"
    /\ UNCHANGED <<chunk_index, sims, family_names, error>>
    /\ UNCHANGED NoDispatch

\* the families that list guid g among their members
Owners(fams, g) ==
    {i \in 1..Len(fams) : \E k \in 1..Len(fams[i].member_guids) : fams[i].member_guids[k] = g}

\* guid_to_family.get(g): the last family in the list that names g
GuidToFamily(fams, g) == fams[CHOOSE i \in Owners(fams, g) : \A j \in Owners(fams, g) : j <= i]

\* the sims no family lists are given the family number 0
AssignedSimsReset(ss, fams) ==
    [i \in 1..Len(ss) |->
        IF Owners(fams, ss[i].guid) # {}
        THEN [ss[i] EXCEPT !.family_number = GuidToFamily(fams, ss[i].guid).chunk_id]
        ELSE [ss[i] EXCEPT !.family_number = 0]]

\* sim.family_number = family.chunk_id for each sim whose guid a family lists
AssignedSims(ss, fams) ==
    [i \in 1..Len(ss) |->
        IF Owners(fams, ss[i].guid) # {}
        THEN [ss[i] EXCEPT !.family_number = GuidToFamily(fams, ss[i].guid).chunk_id]
        ELSE ss[i]]

\* build guid_to_family and assign the families to the sims; then scan Characters/
AssignFamilies ==
    /\ pc = "assign"
    /\ sims' = AssignedSims(sims, families)
    /\ pc' = "scan_file"
    /\ UNCHANGED <<chunk_index, families, family_names, error>>
    /\ UNCHANGED NoDispatch

\* sim.name = info.name for each sim whose guid has a CharacterInfo
RenamedSims(ss, infos) ==
    [i \in 1..Len(ss) |->
        IF ss[i].guid \in DOMAIN infos
        THEN [ss[i] EXCEPT !.name = infos[ss[i].guid].name]
        ELSE ss[i]]

\* the last loop of parse_neighborhood, and its return
RenameSims ==
    /\ pc = "rename"
    /\ sims' = RenamedSims(sims, guid_to_info)
    /\ pc' = "done"
    /\ UNCHANGED <<chunk_index, families, family_names, error>>
    /\ UNCHANGED NoDispatch

HoodStep ==
    \/ ReadChunksStep
    \/ DispatchNbrs \/ DispatchFami \/ DispatchFams \/ DispatchOther \/ DispatchError
    \/ JoinNames \/ AssignFamilies
    \/ ScanStep
    \/ RenameSims

(***************************************************************************)
(* Neighborhood files for parse_neighborhood.                              *)
(***************************************************************************)
MaxHoodChunks == 3

EncFami(house, number, budget, n, members) ==
    EncI32(0) \o EncI32(1) \o MagicIMAF \o EncI32(house) \o EncI32(number) \o EncI32(budget)
      \o Zeros(12) \o EncI32(n) \o Concat([i \in 1..Len(members) |-> EncI32(members[i])])

\* a string table of one entry: language code, name, terminator, empty comment
EncFams(fmt, nm) == EncU16(fmt) \o EncU16(1) \o <<0>> \o nm \o <<0, 0>>

\* a kept record of guid g whose trait vector holds the family number fam
Resident(id, g, fam) ==
    Record(ExtendedVersion, NameBob, 1, TraitVector(5, 5, 5, 5, 30, fam, 0), id, g, <<>>)

HoodChunkShapes ==
    {WellFormed(TagNBRS, 1, EncNbrs(MagicSRBN, 1, <<Resident(1, 100, 0)>>)),
     WellFormed(TagNBRS, 1, EncNbrs(MagicSRBN, 2, <<Resident(1, 100, 3)>> \o <<Resident(2, 200, 7)>>)),
     WellFormed(TagFAMI, 3, EncFami(12, 1, 5000, 1, <<100>>)),
     WellFormed(TagFAMI, 9, EncFami(14, 2, 700, 2, <<100, 200>>)),
     WellFormed(TagFAMI, 4, EncFami(15, 3, 10, 2, <<200>>)),       \* a member is missing
     WellFormed(TagFAMs, 3, EncFams(SupportedFormat, NameAl)),
     WellFormed(TagFAMs, 9, EncFams(SupportedFormat, NameBo)),
     WellFormed(TagFAMs, 1, EncFams(5, NameBo)),                  \* unsupported format
     WellFormed(TagXXXX, 3, <<1, 2>>),
     EncChunk(TagXXXX, 10, 2, <<>>)}                              \* malformed header

HoodChunkLists == UNION {[1..n -> HoodChunkShapes] : n \in 0..MaxHoodChunks}

HoodFiles ==
    {Zeros(FileHeaderSize) \o Concat(cs) : cs \in HoodChunkLists}
    \cup {Zeros(FileHeaderSize) \o c \o <<1, 2, 3>> : c \in HoodChunkShapes}

\* a neighborhood of one sim, one family and its name, with a character file of the sim
HoodFileAl ==
    Zeros(FileHeaderSize)
      \o WellFormed(TagNBRS, 1, EncNbrs(MagicSRBN, 1, <<Resident(1, 100, 0)>>))
      \o WellFormed(TagFAMI, 3, EncFami(12, 1, 5000, 1, <<100>>))
      \o WellFormed(TagFAMs, 3, EncFams(SupportedFormat, NameAl))

\* Characters/ directories: files of the sim, a file of another suffix, a file that ends
\* in a malformed header
HoodDirectories ==
    {<<FileBo>>, <<FileAl, FileBo>>,
     <<[iff |-> FALSE, data |-> FileBo.data], FileAl>>,
     <<CharFile(Zeros(FileHeaderSize) \o EncObjd(100) \o EncChunk(TagXXXX, 10, 3, <<>>)), FileAl>>}

InitHood ==
    /\ entry = "parse_neighborhood"
    /\ pc = "read_chunks"
    /\ \/ data \in HoodFiles /\ files = <<>>
       \/ data = HoodFileAl /\ files \in HoodDirectories
    /\ pos = FileHeaderSize
    /\ chunks = <<>> /\ chunk_index = 0 /\ count = 0 /\ person_data_shorts = <<>>
    /\ sims = <<>> /\ families = <<>> /\ family_names = <<>>
    /\ name = None /\ guid = None /\ portrait = None /\ guid_to_info = <<>> /\ value = <<>>
    /\ error = FALSE
    /\ NotStarted

SpecHood == InitHood /\ [][HoodStep]_vars

Returned == entry = "parse_neighborhood" /\ pc = "done" /\ ~error

\* C2: every Sim's family reference is 0 or the chunk_id of a returned Family.
C2_FamilyResolves ==
    Returned =>
        \A i \in 1..Len(sims) :
            \/ sims[i].family_number = 0
            \/ \E k \in 1..Len(families) : families[k].chunk_id = sims[i].family_number

\* the Sims as _parse_nbrs decoded them from the roster chunks, in file order
RECURSIVE RosterSims(_)
RosterSims(cs) ==
    IF cs = <<>> THEN <<>>
    ELSE (IF Head(cs).chunk_type = TagNBRS THEN ParseNbrs(Head(cs).chunk_data).sims ELSE <<>>)
           \o RosterSims(Tail(cs))

Lists(family, g) == \E k \in 1..Len(family.member_guids) : family.member_guids[k] = g

\* C2, amended: a Sim whose guid a returned Family lists refers to the chunk_id of the
\* last such Family; every other Sim keeps the raw value of trait index 61.
C2_FamilyOrRaw ==
    Returned =>
        /\ Len(sims) = Len(RosterSims(chunks))
        /\ \A i \in 1..Len(sims) :
              IF \E k \in 1..Len(families) : Lists(families[k], sims[i].guid)
              THEN \E k \in 1..Len(families) :
                      /\ Lists(families[k], sims[i].guid)
                      /\ \A j \in (k + 1)..Len(families) : ~Lists(families[j], sims[i].guid)
                      /\ sims[i].family_number = families[k].chunk_id
              ELSE sims[i].family_number = RosterSims(chunks)[i].family_number

\* a Sim that no family lists kept the raw family number 7, which no Family has
C2_WitnessRaw ==
    /\ Returned
    /\ Len(sims) = 2 /\ Len(families) = 1 /\ families[1].chunk_id = 3
    /\ sims[2].guid = 200 /\ sims[2].family_number = 7

ChunksOfType(tag) == {i \in 1..Len(chunks) : chunks[i].chunk_type = tag}

TheChunk(tag) == chunks[CHOOSE i \in ChunksOfType(tag) : TRUE]

\* the container holds one roster chunk of one kept record, one family chunk that lists
\* the record's guid, and one string table with the chunk id of the family chunk
MinimalContainer ==
    /\ Cardinality(ChunksOfType(TagNBRS)) = 1
    /\ Cardinality(ChunksOfType(TagFAMI)) = 1
    /\ Cardinality(ChunksOfType(TagFAMs)) = 1
    /\ Len(ParseNbrs(TheChunk(TagNBRS).chunk_data).sims) = 1
    /\ ParseFami(TheChunk(TagFAMI).chunk_data, TheChunk(TagFAMI).chunk_id).found
    /\ Lists(ParseFami(TheChunk(TagFAMI).chunk_data, TheChunk(TagFAMI).chunk_id).family,
             ParseNbrs(TheChunk(TagNBRS).chunk_data).sims[1].guid)
    /\ TheChunk(TagFAMs).chunk_id = TheChunk(TagFAMI).chunk_id

\* C5: for a container of one roster record, one family listing its guid and one string
\* table with the family's chunk id, in any order of the chunks, the Sim refers to the
\* Family's chunk_id and the Family's name is the first string of the table.
C5_MinimalRoundTrip ==
    (Returned /\ MinimalContainer) =>
        /\ Len(sims) = 1 /\ Len(families) = 1
        /\ families[1].chunk_id = TheChunk(TagFAMI).chunk_id
        /\ sims[1].family_number = families[1].chunk_id
        /\ families[1].name = ParseFams(TheChunk(TagFAMs).chunk_data).value

\* the minimal container was decoded with the string table ahead of the family and the
\* roster chunk last
C5_Witness ==
    /\ Returned /\ MinimalContainer
    /\ Len(chunks) = 3
    /\ chunks[1].chunk_type = TagFAMs /\ chunks[2].chunk_type = TagFAMI
    /\ chunks[3].chunk_type = TagNBRS
    /\ sims[1].family_number = 3 /\ families[1].name = NameAl

(***************************************************************************)
(* compatibility.py: scoring and ranking of already decoded Sims.          *)
(***************************************************************************)
INTEREST_CATEGORIES ==
    <<"travel", "violence", "politics", "sixties", "weather", "sports", "music", "outdoors">>

FRIENDLY_TRAITS == <<"outgoing", "playful", "nice">>

FRIENDLY_THRESHOLD == 400

CommonThreshold == 700

RiskyThreshold == 300

\* compute_interest_score: (score, common_interests, risky_topics)
ComputeInterestScore(sim_a, sim_b) ==
    LET Common(c) == sim_a.interests[c] >= CommonThreshold /\ sim_b.interests[c] >= CommonThreshold
        Risky(c) ==
            \/ sim_a.interests[c] >= CommonThreshold /\ sim_b.interests[c] <= RiskyThreshold
            \/ sim_b.interests[c] >= CommonThreshold /\ sim_a.interests[c] <= RiskyThreshold
        common_interests == SelectSeq(INTEREST_CATEGORIES, Common)
        risky_topics == SelectSeq(INTEREST_CATEGORIES, Risky)
        score == Min(1000, Len(common_interests) * 125)
        penalty == Min(score, Len(risky_topics) * 200)
    IN  [score |-> Max(0, score - penalty), common_interests |-> common_interests,
         risky_topics |-> risky_topics]

\* compute_personality_score: 333 points for each friendly trait at or above the threshold
ComputePersonalityScore(other_sim) ==
    Min(1000, 333 * Cardinality({i \in 1..Len(FRIENDLY_TRAITS) :
                                    other_sim.personality[FRIENDLY_TRAITS[i]] >= FRIENDLY_THRESHOLD}))

\* int(interest_score * 0.7 + personality_score * 0.3) in IEEE double arithmetic: the
\* floor of (7 i + 3 p) / 10, except that 350 * 0.7 is 244.99999999999997
FinalScore(interest_score, personality_score) ==
    IF interest_score = 350 /\ personality_score = 0 THEN 244
    ELSE (7 * interest_score + 3 * personality_score) \div 10

\* compute_compatibility(sim, other)
ComputeCompatibility(sim, other) ==
    LET interest == ComputeInterestScore(sim, other)
        personality_score == ComputePersonalityScore(other)
        known == other.id \in DOMAIN sim.relationships
    IN  [sim |-> other,
         score |-> FinalScore(interest.score, personality_score),
         common_interests |-> interest.common_interests,
         risky_topics |-> interest.risky_topics,
         personality_match |-> personality_score,
         relationship_daily |-> IF known THEN Some(sim.relationships[other.id].daily) ELSE None,
         relationship_lifetime |-> IF known THEN Some(sim.relationships[other.id].lifetime) ELSE None,
         is_friend |-> IF known THEN sim.relationships[other.id].is_friend ELSE FALSE]

\* the loop of rank_compatibility: `if other.id == sim.id: continue`, else append
RECURSIVE ScoreOthers(_, _)
ScoreOthers(sim, all_sims) ==
    IF all_sims = <<>> THEN <<>>
    ELSE (IF Head(all_sims).id = sim.id THEN <<>>
          ELSE <<ComputeCompatibility(sim, Head(all_sims))>>) \o ScoreOthers(sim, Tail(all_sims))

\* r put into a list sorted by descending score, after the results of the same score
RECURSIVE InsertByScore(_, _)
InsertByScore(r, sorted) ==
    IF sorted = <<>> THEN <<r>>
    ELSE IF Head(sorted).score >= r.score THEN <<Head(sorted)>> \o InsertByScore(r, Tail(sorted))
    ELSE <<r>> \o sorted

\* results.sort(key=score, reverse=True): stable, so equal scores keep their order
RECURSIVE SortByScore(_, _)
SortByScore(results, sorted) ==
    IF results = <<>> THEN sorted
    ELSE SortByScore(Tail(results), InsertByScore(Head(results), sorted))

\* the results in the order of the list, left unsorted
RankUnsorted(sim, all_sims) == ScoreOthers(sim, all_sims)

\* rank_compatibility(sim, all_sims)
RankCompatibility(sim, all_sims) == SortByScore(ScoreOthers(sim, all_sims), <<>>)

(***************************************************************************)
(* main.py: lifespan, _load_data and the request handlers.  lifespan calls *)
(* _load_data before it yields, and _load_data never awaits, so the event  *)
(* loop runs no handler until _load_data has returned.                     *)
(***************************************************************************)
NoLoad == <<entry, pc, data, pos, chunks, chunk_index, count, person_data_shorts, sims,
            families, family_names, files, name, guid, portrait, guid_to_info, value,
            error, source_sim, candidates, rankings>>

\* parse_neighborhood returned: sims, families, guid_to_info are bound
LoadParsed ==
    /\ load_pc = "parse"
    /\ pc = "done"
    /\ ~error
    /\ load_pc' = "reset_portraits"
    /\ UNCHANGED <<load_index, Globals, response>>
    /\ UNCHANGED NoLoad

\* parse_neighborhood raised: the exception leaves lifespan and the service never starts
LoadFailed ==
    /\ load_pc = "parse"
    /\ pc = "done"
    /\ error
    /\ load_pc' = "failed"
    /\ UNCHANGED <<load_index, Globals, response>>
    /\ UNCHANGED NoLoad

\* _portraits = {}
LoadResetPortraits ==
    /\ load_pc = "reset_portraits"
    /\ _portraits' = <<>>
    /\ load_index' = 0
    /\ load_pc' = "portraits"
    /\ UNCHANGED <<_families, _sims, _sims_by_id, _family_by_number, response>>
    /\ UNCHANGED NoLoad

\* `info and info.portrait` for the sim s
HasPortrait(infos, s) ==
    IF s.guid \in DOMAIN infos
    THEN (IF infos[s.guid].portrait = None THEN FALSE ELSE infos[s.guid].portrait[1] # <<>>)
    ELSE FALSE

\* d[k] = v on a dict d
Store(d, k, v) == [j \in (DOMAIN d) \cup {k} |-> IF j = k THEN v ELSE d[j]]

\* one turn of `for s in sims`: _portraits[s.id] = info.portrait, in place
LoadPortrait ==
    /\ load_pc = "portraits"
    /\ load_index < Len(sims)
    /\ LET s == sims[load_index + 1]
       IN  _portraits' = IF HasPortrait(guid_to_info, s)
                         THEN Store(_portraits, s.id, guid_to_info[s.guid].portrait[1])
                         ELSE _portraits
    /\ load_index' = load_index + 1
    /\ UNCHANGED <<load_pc, _families, _sims, _sims_by_id, _family_by_number, response>>
    /\ UNCHANGED NoLoad

\* [f for f in families if f.chunk_id != 0]
FilterFamilies(fams) == SelectSeq(fams, LAMBDA f : f.chunk_id # 0)

\* [s for s in sims if s.family_number != 0]
FilterSims(ss) == SelectSeq(ss, LAMBDA s : s.family_number # 0)

\* {s.id: s for s in ss}: a later sim replaces an earlier one of the same id
SimsById(ss) ==
    [k \in {ss[i].id : i \in 1..Len(ss)} |->
        ss[CHOOSE i \in 1..Len(ss) :
              ss[i].id = k /\ \A j \in 1..Len(ss) : ss[j].id = k => j <= i]]

\* {f.chunk_id: f for f in fams}
FamilyByNumber(fams) ==
    [k \in {fams[i].chunk_id : i \in 1..Len(fams)} |->
        fams[CHOOSE i \in 1..Len(fams) :
                fams[i].chunk_id = k /\ \A j \in 1..Len(fams) : fams[j].chunk_id = k => j <= i]]

\* the portrait loop is over: _families = [...]
LoadFamilies ==
    /\ load_pc = "portraits"
    /\ load_index = Len(sims)
    /\ _families' = FilterFamilies(families)
    /\ load_pc' = "sims"
    /\ UNCHANGED <<load_index, _portraits, _sims, _sims_by_id, _family_by_number, response>>
    /\ UNCHANGED NoLoad

\* _sims = [...]
LoadSims ==
    /\ load_pc = "sims"
    /\ _sims' = FilterSims(sims)
    /\ load_pc' = "sims_by_id"
    /\ UNCHANGED <<load_index, _portraits, _families, _sims_by_id, _family_by_number, response>>
    /\ UNCHANGED NoLoad

\* _sims_by_id = {...}
LoadSimsById ==
    /\ load_pc = "sims_by_id"
    /\ _sims_by_id' = SimsById(_sims)
    /\ load_pc' = "family_by_number"
    /\ UNCHANGED <<load_index, _portraits, _families, _sims, _family_by_number, response>>
    /\ UNCHANGED NoLoad

\* _family_by_number = {...}; _load_data returns and lifespan yields
LoadFamilyByNumber ==
    /\ load_pc = "family_by_number"
    /\ _family_by_number' = FamilyByNumber(_families)
    /\ load_pc' = "serving"
    /\ UNCHANGED <<load_index, _portraits, _families, _sims, _sims_by_id, response>>
    /\ UNCHANGED NoLoad

LoadStep ==
    \/ LoadParsed \/ LoadFailed
    \/ LoadResetPortraits \/ LoadPortrait
    \/ LoadFamilies \/ LoadSims \/ LoadSimsById \/ LoadFamilyByNumber

HexDigit(n) == IF n < 10 THEN 48 + n ELSE 55 + n

\* the digits of n in base 16, most significant first, at least `width` of them
RECURSIVE HexDigits(_, _)
HexDigits(n, width) ==
    IF n < 16 /\ width <= 1 THEN <<HexDigit(n)>>
    ELSE Append(HexDigits(n \div 16, width - 1), HexDigit(n % 16))

\* _format_guid: f"0x{guid:08X}"
FormatGuid(g) == <<48, 120>> \o HexDigits(g, 8)

\* _sim_to_dict(sim), which reads _family_by_number
SimToDict(s) ==
    LET known == s.family_number \in DOMAIN _family_by_number
    IN  [id |-> s.id, guid |-> FormatGuid(s.guid), name |-> s.name,
         family_name |-> IF known THEN _family_by_number[s.family_number].name ELSE <<>>,
         family_id |-> s.family_number,
         house_number |-> IF known THEN _family_by_number[s.family_number].house_number ELSE 0,
         age |-> s.age, gender |-> s.gender,
         personality |-> s.personality,
         interests |-> [c \in {INTEREST_CATEGORIES[i] : i \in 1..Len(INTEREST_CATEGORIES)} |->
                           s.interests[c]]]

\* _family_to_dict(family)
FamilyToDict(f) ==
    [id |-> f.chunk_id, name |-> f.name, house_number |-> f.house_number, budget |-> f.budget,
     member_guids |-> [i \in 1..Len(f.member_guids) |-> FormatGuid(f.member_guids[i])]]

\* one entry of "rankings" in the body of get_compatibility
RankingToDict(r) ==
    [sim |-> SimToDict(r.sim), score |-> r.score, common_interests |-> r.common_interests,
     risky_topics |-> r.risky_topics, personality_match |-> r.personality_match,
     relationship_daily |-> r.relationship_daily,
     relationship_lifetime |-> r.relationship_lifetime, is_friend |-> r.is_friend]

Ok(handler, body) == Some([handler |-> handler, status |-> 200, body |-> body])

NotFound(handler, detail) == Some([handler |-> handler, status |-> 404, body |-> [detail |-> detail]])

\* the ids a request may carry
SimIds == 0..3

\* a handler runs while lifespan is still inside _load_data
CanServeEarly == load_pc \notin {"imported", "parse", "failed"}

\* the event loop dispatches requests once lifespan has yielded
CanServe == load_pc = "serving"

NoHandler == <<entry, pc, data, pos, chunks, chunk_index, count, person_data_shorts, sims,
               families, family_names, files, name, guid, portrait, guid_to_info, value,
               error, load_pc, load_index, Globals, source_sim, candidates, rankings>>

\* GET /api/sims
GetSims ==
    /\ CanServe
    /\ response' = Ok("get_sims", [sims |-> [i \in 1..Len(_sims) |-> SimToDict(_sims[i])]])
    /\ UNCHANGED NoHandler

\* GET /api/sims/{sim_id}/compatibility
GetCompatibility ==
    /\ CanServe
    /\ \E sim_id \in SimIds :
          response' =
              IF sim_id \notin DOMAIN _sims_by_id
              THEN NotFound("get_compatibility", <<"Sim with id ", sim_id, " not found">>)
              ELSE LET ranked == RankCompatibility(_sims_by_id[sim_id], _sims)
                   IN  Ok("get_compatibility",
                          [sim_id |-> sim_id,
                           rankings |-> [i \in 1..Len(ranked) |-> RankingToDict(ranked[i])]])
    /\ UNCHANGED NoHandler

\* GET /api/sims/{sim_id}/portrait
GetPortrait ==
    /\ CanServe
    /\ \E sim_id \in SimIds :
          response' =
              IF sim_id \notin DOMAIN _portraits
              THEN NotFound("get_portrait", <<"No portrait available">>)
              ELSE Ok("get_portrait", [content |-> _portraits[sim_id], media_type |-> "image/bmp"])
    /\ UNCHANGED NoHandler

\* GET /api/families
GetFamilies ==
    /\ CanServe
    /\ response' = Ok("get_families",
                      [families |-> [i \in 1..Len(_families) |-> FamilyToDict(_families[i])]])
    /\ UNCHANGED NoHandler

HandlerStep == GetSims \/ GetCompatibility \/ GetPortrait \/ GetFamilies

ServiceStep == HoodStep \/ LoadStep \/ HandlerStep

(***************************************************************************)
(* The service started on a neighbourhood: lifespan runs _load_data, which *)
(* runs parse_neighborhood, and then requests arrive in any order.         *)
(***************************************************************************)
MaxServiceChunks == 2

RosterOfThree ==
    WellFormed(TagNBRS, 1, EncNbrs(MagicSRBN, 3, <<Resident(1, 100, 3)>> \o <<Resident(2, 200, 7)>>
                                                   \o <<Resident(2, 300, 3)>>))

FamiOfAl == WellFormed(TagFAMI, 3, EncFami(12, 1, 5000, 1, <<100>>))

\* the Default family, chunk_id 0
FamiDefault == WellFormed(TagFAMI, 0, EncFami(0, 0, 0, 1, <<200>>))

FamsOfAl == WellFormed(TagFAMs, 3, EncFams(SupportedFormat, NameAl))

ServiceChunkShapes ==
    {RosterOfThree,
     WellFormed(TagNBRS, 1, EncNbrs(MagicSRBN, 1, <<Resident(1, 100, 0)>>)),
     WellFormed(TagNBRS, 1, SubSeq(EncNbrs(MagicSRBN, 1, <<Resident(1, 100, 0)>>), 1, 20)),
     FamiOfAl, FamiDefault, FamsOfAl}

ServiceChunkLists == UNION {[1..n -> ServiceChunkShapes] : n \in 0..MaxServiceChunks}

ServiceFiles ==
    {Zeros(FileHeaderSize) \o Concat(cs) : cs \in ServiceChunkLists}
    \cup {Zeros(FileHeaderSize) \o RosterOfThree \o FamiOfAl \o FamiDefault \o FamsOfAl,
          \* a chunk of another type, a malformed header, and bytes short of a header
          Zeros(FileHeaderSize) \o WellFormed(TagXXXX, 3, <<1, 2>>) \o EncChunk(TagXXXX, 10, 2, <<>>)
            \o RosterOfThree \o FamiOfAl \o <<1, 2, 3>>}

\* a character file of guid 300 with a portrait
FileCy == CharFile(Zeros(FileHeaderSize) \o EncObjd(300) \o EncCtss(SupportedFormat, NameBob)
                     \o WellFormed(TagBMP, PortraitId, BitmapSignature \o <<7>>))

ServiceDirectories == {<<>>, <<FileBo, FileCy>>} \cup HoodDirectories

InitService ==
    /\ entry = "parse_neighborhood"
    /\ pc = "read_chunks"
    /\ data \in ServiceFiles
    /\ files \in ServiceDirectories
    /\ pos = FileHeaderSize
    /\ chunks = <<>> /\ chunk_index = 0 /\ count = 0 /\ person_data_shorts = <<>>
    /\ sims = <<>> /\ families = <<>> /\ family_names = <<>>
    /\ name = None /\ guid = None /\ portrait = None /\ guid_to_info = <<>> /\ value = <<>>
    /\ error = FALSE
    /\ load_pc = "parse"
    /\ ModuleImported
    /\ NoRanking

SpecService == InitService /\ [][ServiceStep]_vars

\* the dict the portrait loop of _load_data builds from the first n sims
RECURSIVE PortraitsOf(_, _, _)
PortraitsOf(ss, infos, n) ==
    IF n = 0 THEN <<>>
    ELSE IF HasPortrait(infos, ss[n])
         THEN Store(PortraitsOf(ss, infos, n - 1), ss[n].id, infos[ss[n].guid].portrait[1])
         ELSE PortraitsOf(ss, infos, n - 1)

\* all five globals hold what _load_data derives from the one result of parse_neighborhood
WholeLoad ==
    /\ _portraits = PortraitsOf(sims, guid_to_info, Len(sims))
    /\ _families = FilterFamilies(families)
    /\ _sims = FilterSims(sims)
    /\ _sims_by_id = SimsById(FilterSims(sims))
    /\ _family_by_number = FamilyByNumber(FilterFamilies(families))

\* C11: a request handler only ever answers from module state in which all five globals
\* come from the one finished load, and once handlers can run no global changes any more,
\* neither by rebinding nor in place.
C11_HandlersSeeWholeLoad ==
    [][/\ (response' # response) => (load_pc = "serving" /\ WholeLoad)
       /\ (load_pc = "serving") => (UNCHANGED Globals /\ load_pc' = "serving")]_vars

\* handlers have answered from a load that filled every global, the portraits included
C11_Witness ==
    /\ load_pc = "serving"
    /\ response # None
    /\ response[1].handler = "get_compatibility" /\ response[1].status = 200
    /\ Len(_sims) >= 2 /\ Len(_families) >= 1
    /\ DOMAIN _portraits # {} /\ DOMAIN _sims_by_id # {} /\ DOMAIN _family_by_number # {}

(***************************************************************************)
(* Specification of rank_compatibility applied to lists of decoded Sims.   *)
(***************************************************************************)
MaxCandidates == 3

AllHigh == [k \in 1..8 |-> 800]

AllLow == [k \in 1..8 |-> 200]

AllMid == [k \in 1..8 |-> 500]

\* six interests shared with AllHigh, two that are risky against it
MostlyHigh == [k \in 1..8 |-> IF k <= 6 THEN 800 ELSE 200]

\* the trait vector of a record: the eight base interests, the three friendly traits
ShortsOf(base, nice, playful, outgoing) ==
    [i \in 1..TraitShorts |->
        IF i - 1 \in 46..53 THEN base[i - 46]
        ELSE IF i - 1 = 2 THEN nice
        ELSE IF i - 1 = 5 THEN playful
        ELSE IF i - 1 = 6 THEN outgoing
        ELSE IF i - 1 = 58 THEN 30
        ELSE IF i - 1 = 61 THEN 3
        ELSE 0]

\* Sims as _parse_nbrs builds them; two pairs of them share a numeric id
SimPool ==
    {MakeSim(1, 100, NameAl, ShortsOf(AllHigh, 0, 0, 0), Store(<<>>, 2, MakeRelationship(<<50, 1, 60>>))),
     MakeSim(2, 200, NameBob, ShortsOf(AllHigh, 400, 500, 1000), <<>>),
     MakeSim(2, 300, NameBo, ShortsOf(MostlyHigh, 0, 399, 0), <<>>),
     MakeSim(3, 400, NameBo, ShortsOf(AllLow, 400, 0, 0), <<>>),
     MakeSim(1, 500, NameBob, ShortsOf(AllMid, 0, 400, 400), <<>>),
     MakeSim(3, 600, NameAl, ShortsOf(MostlyHigh, 1000, 1000, 1000), <<>>)}

CandidateLists == UNION {[1..n -> SimPool] : n \in 0..MaxCandidates}

InitRank ==
    /\ entry = "rank_compatibility"
    /\ pc = "rank"
    /\ data = <<>>
    /\ pos = 0
    /\ NothingDecoded
    /\ load_pc = "imported"
    /\ ModuleImported
    /\ source_sim \in {Some(s) : s \in SimPool}
    /\ candidates \in CandidateLists
    /\ rankings = None

NoCall == <<entry, data, pos, chunks, chunk_index, count, person_data_shorts, sims,
            families, family_names, files, name, guid, portrait, guid_to_info, value,
            error, load_pc, load_index, Globals, response, source_sim, candidates>>

\* the call rank_compatibility(sim, all_sims) and its return
Rank ==
    /\ pc = "rank"
    /\ rankings' = Some(RankCompatibility(source_sim[1], candidates))
    /\ pc' = "done"
    /\ UNCHANGED NoCall

SpecRank == InitRank /\ [][Rank]_vars

Ranked == entry = "rank_compatibility" /\ pc = "done"

\* how many elements of the list satisfy Test
CountOf(list, Test(_)) == Cardinality({i \in 1..Len(list) : Test(list[i])})

ScoresDescend(rs) == \A i \in 1..Len(rs) : \A j \in i..Len(rs) : rs[i].score >= rs[j].score

ScoresInRange(rs) == \A i \in 1..Len(rs) : rs[i].score \in 0..1000

AtRecord == entry = "_parse_nbrs" /\ pc = "nbrs_record" /\ count > 0

\* the step decoded the record at the cursor to its end
RecordDecoded == AtRecord /\ count' = count - 1 /\ ~error'

RecordPopulated == UnpackI32LE(data, pos) = 1

RecordVersion == UnpackI32LE(data, pos + 4)

RecordNameAt == IF RecordVersion = 10 THEN pos + 12 ELSE pos + 8

RecordName == ReadNullTerminatedString(data, RecordNameAt)

\* the reserved field follows the name, its terminator and the padding byte of an even name
RecordReservedAt == RecordName.pos + (IF Len(RecordName.value) % 2 = 0 THEN 1 ELSE 0)

RecordTraitMode == UnpackI32LE(data, RecordReservedAt + 4)

RecordBlockAt == RecordReservedAt + 8

RecordBlockSize == IF RecordVersion = 10 THEN 512 ELSE 160

\* the first 88 two-byte signed integers from the start of the trait block
RecordFirstShorts ==
    IF CanUnpack(data, RecordBlockAt, 176)
    THEN [i \in 1..88 |-> UnpackI16LE(data, RecordBlockAt + 2 * (i - 1))]
    ELSE <<>>

\* C13: a populated record with trait-mode > 0, of version 0xA or of any other version,
\* has the first 88 shorts of its trait block taken as the trait vector, the id fields
\* read right after the full block, and a Sim emitted for it.
C13_TraitBlockEmitsSim ==
    [][(RecordDecoded /\ RecordPopulated /\ RecordTraitMode > 0) =>
          /\ person_data_shorts' = RecordFirstShorts
          /\ Emitted
          /\ Last(sims').id = UnpackI16LE(data, RecordBlockAt + RecordBlockSize)
          /\ Last(sims').guid = UnpackU32LE(data, RecordBlockAt + RecordBlockSize + 2)]_vars

(***************************************************************************)
(* _read_chunks as a function, to compare _scan_characters with.           *)
(***************************************************************************)
\* the chunks _read_chunks appends from cursor p on
RECURSIVE ReadChunksFrom(_, _)
ReadChunksFrom(d, p) ==
    IF ~(p < Len(d)) THEN <<>>
    ELSE IF p + ChunkHeaderSize > Len(d) THEN <<>>
    ELSE IF ChunkSize(d, p) < ChunkHeaderSize THEN ReadChunksFrom(d, p + ChunkHeaderSize)
    ELSE <<ChunkAt(d, p)>> \o ReadChunksFrom(d, p + ChunkSize(d, p))

InScanLoop == entry = "_scan_characters" /\ pc = "scan_chunk"

\* C14: in every character file _scan_characters examines the chunks _read_chunks yields,
\* one after the other, and leaves the file only when _read_chunks yields no further
\* chunk, so also the chunks after a malformed header are examined.
C14_ScanExaminesReaderChunks ==
    [][InScanLoop =>
          IF pc' = "scan_chunk"
          THEN /\ ReadChunksFrom(data, pos) # <<>>
               /\ Head(ReadChunksFrom(data, pos)) = ChunkAt(data, pos)
               /\ ReadChunksFrom(data, pos') = Tail(ReadChunksFrom(data, pos))
          ELSE ReadChunksFrom(data, pos) = <<>>]_vars

\* the id fields follow the trait block, which is present when trait-mode > 0
RecordIdsAt == RecordBlockAt + (IF RecordTraitMode > 0 THEN RecordBlockSize ELSE 0)

RecordRelationshipCount == UnpackI32LE(data, RecordIdsAt + 10)

\* the offset after n relationship sub-records that start at q: each is a key-count, that
\* many keys, a value-count and that many values, of 4 bytes each
RECURSIVE SubRecordsEnd(_, _, _)
SubRecordsEnd(d, q, n) ==
    IF n <= 0 THEN q
    ELSE LET key_count == UnpackI32LE(d, q)
             value_count == UnpackI32LE(d, q + 4 + 4 * key_count)
         IN  SubRecordsEnd(d, q + 4 + 4 * key_count + 4 + 4 * value_count, n - 1)

\* the offset of the first byte after the record at the cursor
RecordEnd == SubRecordsEnd(data, RecordIdsAt + 14, RecordRelationshipCount)

\* the populated record at the cursor is one that _parse_nbrs leaves out of its output
RecordDiscarded == RecordTraitMode <= 0 \/ Len(person_data_shorts') < 88

\* C15: a populated record that is discarded is consumed to its last byte, relationship
\* sub-records included, exactly as a record that is kept, and adds nothing to the
\* output, so the record after it is decoded from its own first byte.
C15_DiscardConsumesRecord ==
    [][(RecordDecoded /\ RecordPopulated) =>
          /\ pos' = RecordEnd
          /\ RecordDiscarded => sims' = sims
          /\ ~RecordDiscarded => Emitted]_vars

\* a discarded record with relationship sub-records was followed by a record that was
\* decoded to the Sim its bytes describe
C15_Witness ==
    /\ entry = "_parse_nbrs" /\ pc = "done" /\ ~error
    /\ NbrsMagic(data) = MagicSRBN /\ UnpackU32LE(data, 12) = 2
    /\ UnpackI32LE(data, NbrsHeaderSize) = 1
    /\ UnpackI32LE(data, NbrsHeaderSize + 4) = 1
    /\ Len(sims) = 1
    /\ sims[1].id = 1 /\ sims[1].guid = 100 /\ sims[1].name = NameBob
    /\ DOMAIN sims[1].relationships = {2}
    /\ sims[1].relationships[2] = [daily |-> 50, is_friend |-> TRUE, lifetime |-> 60]
    /\ pos = Len(data)

\* the Relationship the values of a sub-record stand for: short-term score, is-friend
\* flag and long-term score by position, 0 / FALSE where the position is missing
RelationshipOfValues(d, q, value_count) ==
    [daily |-> IF value_count >= 1 THEN UnpackI32LE(d, q) ELSE 0,
     is_friend |-> IF value_count >= 2 THEN UnpackI32LE(d, q + 4) # 0 ELSE FALSE,
     lifetime |-> IF value_count >= 3 THEN UnpackI32LE(d, q + 8) ELSE 0]

\* the mapping n sub-records that start at q stand for: each sub-record with a key is
\* entered under its first key, a later one replacing an earlier one of the same key
RECURSIVE RelationshipsByFirstKey(_, _, _, _)
RelationshipsByFirstKey(d, q, n, rels) ==
    IF n <= 0 THEN rels
    ELSE LET key_count == UnpackI32LE(d, q)
             value_count == UnpackI32LE(d, q + 4 + 4 * key_count)
             values_at == q + 4 + 4 * key_count + 4
         IN  RelationshipsByFirstKey(d, values_at + 4 * value_count, n - 1,
                 IF key_count >= 1
                 THEN Store(rels, UnpackI32LE(d, q + 4),
                            RelationshipOfValues(d, values_at, value_count))
                 ELSE rels)

\* C16: the relationships of an emitted Sim hold, for each sub-record of any key-count and
\* value-count, 0 included, the Relationship of its values under the first of its keys,
\* one per target id, and the cursor ends right after the last value.
C16_RelationshipsUnderFirstKey ==
    [][(RecordDecoded /\ RecordPopulated /\ Emitted) =>
          /\ Last(sims').relationships =
                 RelationshipsByFirstKey(data, RecordIdsAt + 14, RecordRelationshipCount, <<>>)
          /\ pos' = RecordEnd]_vars

====
